---------------------------- MODULE Spec2Model ----------------------------
(***************************************************************************)
(* A model of the WhatsApp Wrapped server (src/server.py): the request     *)
(* handler wrapped, the line parser parse_chat_text and the aggregation    *)
(* compute_stats.                                                          *)
(*                                                                         *)
(* Text is modelled as a sequence of Unicode code points (a Python str),   *)
(* so that the regular expressions, strip(), lower(), splitlines() and the *)
(* emoji ranges are computed on characters as the code computes them.      *)
(* A Python Optional is a sequence of length at most one: None is << >>    *)
(* and a value v is << v >>.                                               *)
(***************************************************************************)
EXTENDS Integers, Sequences, FiniteSets, TLC

VARIABLES
    pc,        \* where the request is: see PcValues
    content,   \* wrapped's text: the decoded upload
    lines,     \* parse_chat_text's content.splitlines()
    idx,       \* number of lines the for loop of parse_chat_text has consumed
    heap,      \* the dicts parse_chat_text has created, by reference
    records,   \* parse_chat_text's list records: references into heap
    current,   \* parse_chat_text's current: a reference, or 0 for None
    result     \* the WrappedResponse returned, as an Optional

vars == <<pc, content, lines, idx, heap, records, current, result>>

PcValues ==
    { "start", "bad_extension", "too_large", "undecodable", "parsing", "parsed",
      "rejected", "computing", "done", "raised_ValueError",
      "raised_ValidationError" }

None == << >>
Some(v) == << v >>

\* A Python list built by a comprehension, as a tuple: TLC keeps the function
\* [i \in 1..n |-> e] unevaluated and computes e anew at each application;
\* concatenation evaluates it once.
List(f) == << >> \o f

---------------------------------------------------------------------------
(* Characters *)

LF == 10
CR == 13
SPACE == 32
COLON == 58
LRM == 8206

\* str.splitlines() line boundaries: \n \v \f \r \x1c \x1d \x1e \x85    
LineBoundaries == {10, 11, 12, 13, 28, 29, 30, 133, 8232, 8233}

\* str.strip() and the regex class \s: Unicode whitespace
Whitespace == {9, 10, 11, 12, 13, 28, 29, 30, 31, 32, 133, 160, 8232, 8233}

IsDigit(c) == c \in 48..57
DigitVal(c) == c - 48

\* str.lower() / re.IGNORECASE on the ASCII letters
LowerChar(c) == IF c \in 65..90 THEN c + 32 ELSE c
Lower(s) == List([i \in 1..Len(s) |-> LowerChar(s[i])])

\* str.strip()
Strip(s) ==
    LET n    == Len(s)
        keep == {i \in 1..n : s[i] \notin Whitespace}
    IN  IF keep = {} THEN << >>
        ELSE LET lo == CHOOSE i \in keep : \A j \in 1..(i - 1) : s[j] \in Whitespace
                 hi == CHOOSE i \in keep : \A j \in (i + 1)..n : s[j] \in Whitespace
             IN  SubSeq(s, lo, hi)

\* str.replace(old, new) for single characters
ReplaceChar(s, old, new) ==
    List([i \in 1..Len(s) |-> IF s[i] = old THEN new ELSE s[i]])

\* str.replace(ch, "")
RemoveChar(s, ch) == SelectSeq(s, LAMBDA c : c # ch)

\* whether pattern p (lower case) occurs in s at position i, ignoring case
MatchAt(s, p, i) ==
    /\ i >= 1
    /\ i + Len(p) - 1 <= Len(s)
    /\ \A j \in 1..Len(p) : LowerChar(s[i + j - 1]) = p[j]

ContainsCI(s, p) == \E i \in 1..(Len(s) - Len(p) + 1) : MatchAt(s, p, i)

\* the members of a set of numbers, in increasing order
SortedSeq(S) ==
    List([j \in 1..Cardinality(S) |->
             CHOOSE x \in S : Cardinality({y \in S : y < x}) = j - 1])

\* str.splitlines(): a boundary ends a line (\r\n is one boundary); the text
\* after the last boundary is a line only when it is not empty
SplitLines(s) ==
    LET n      == Len(s)
        starts == SortedSeq({i \in 1..n :
                      /\ s[i] \in LineBoundaries
                      /\ ~(s[i] = LF /\ i > 1 /\ s[i - 1] = CR)})
        m      == Len(starts)
        after(j) == LET b == starts[j]
                    IN  IF s[b] = CR /\ b < n /\ s[b + 1] = LF THEN b + 2 ELSE b + 1
        from(j)  == IF j = 1 THEN 1 ELSE after(j - 1)
        ended  == List([j \in 1..m |-> SubSeq(s, from(j), starts[j] - 1)])
        rest   == SubSeq(s, from(m + 1), n)
    IN  IF rest = << >> THEN ended ELSE Append(ended, rest)

\* str.rstrip("\n")
RECURSIVE RStripLF(_)
RStripLF(s) ==
    IF s # << >> /\ s[Len(s)] = LF THEN RStripLF(SubSeq(s, 1, Len(s) - 1)) ELSE s

---------------------------------------------------------------------------
(* HEADER_RE and datetime.strptime *)

\* HEADER_RE.match(line): None, or the groups (date, time, sender, msg).
\* ^\[(\d{4}/\d{2}/\d{2}),\s(\d{2}:\d{2}:\d{2})\]\s([^:]+?):\s(.*)$
\* The sender cannot hold a colon, so it ends at the first colon from
\* position 24 on, which must be followed by one whitespace character;
\* .* does not match a line feed.
HeaderMatch(line) ==
    LET n == Len(line)
        colons == {k \in 24..n : line[k] = COLON}
        k == CHOOSE c \in colons : \A d \in colons : c <= d
    IN  IF /\ n >= 26
           /\ line[1] = 91
           /\ \A i \in {2, 3, 4, 5, 7, 8, 10, 11, 14, 15, 17, 18, 20, 21} : IsDigit(line[i])
           /\ line[6] = 47 /\ line[9] = 47
           /\ line[12] = 44
           /\ line[13] \in Whitespace
           /\ line[16] = COLON /\ line[19] = COLON
           /\ line[22] = 93
           /\ line[23] \in Whitespace
           /\ colons # {}
           /\ k >= 25
           /\ k + 1 <= n
           /\ line[k + 1] \in Whitespace
           /\ \A i \in (k + 2)..n : line[i] # LF
        THEN Some([date   |-> SubSeq(line, 2, 11),
                   time   |-> SubSeq(line, 14, 21),
                   sender |-> SubSeq(line, 24, k - 1),
                   msg    |-> SubSeq(line, k + 2, n)])
        ELSE None

Num2(s, i) == 10 * DigitVal(s[i]) + DigitVal(s[i + 1])
Num4(s, i) == 100 * Num2(s, i) + Num2(s, i + 2)

IsLeap(y) == y % 4 = 0 /\ (y % 100 # 0 \/ y % 400 = 0)

DaysInMonth(y, m) ==
    IF m = 2 THEN (IF IsLeap(y) THEN 29 ELSE 28)
    ELSE IF m \in {4, 6, 9, 11} THEN 30 ELSE 31

\* datetime.strptime(date + " " + time, "%Y/%m/%d %H:%M:%S"): the datetime, or
\* None where strptime raises ValueError (a field out of its range)
Strptime(date, time) ==
    LET y  == Num4(date, 1)
        mo == Num2(date, 6)
        d  == Num2(date, 9)
        h  == Num2(time, 1)
        mi == Num2(time, 4)
        s  == Num2(time, 7)
    IN  IF /\ y >= 1
           /\ mo \in 1..12
           /\ d >= 1 /\ d <= DaysInMonth(y, mo)
           /\ h <= 23 /\ mi <= 59 /\ s <= 59
        THEN Some([year |-> y, month |-> mo, day |-> d,
                   hour |-> h, minute |-> mi, second |-> s])
        ELSE None

---------------------------------------------------------------------------
(* parse_chat_text: the loop body and the code after the loop, on the      *)
(* parser's state ps = [heap, records, current]                            *)

\* as OpenRecord, were the open dict filled anew instead of a new dict bound
OpenRecordInPlace(ps, ts, g) ==
    LET rec == [timestamp |-> ts, sender |-> Strip(g.sender), message |-> Strip(g.msg)]
    IN  IF ps.current = 0
        THEN [heap |-> Append(ps.heap, rec), records |-> ps.records,
              current |-> Len(ps.heap) + 1]
        ELSE [heap |-> [ps.heap EXCEPT ![ps.current] = rec], records |-> ps.records,
              current |-> ps.current]

\* lines 100-104: current = {...} binds current to a new dict
OpenRecord(ps, ts, g) ==
    [heap    |-> Append(ps.heap, [timestamp |-> ts,
                                  sender    |-> Strip(g.sender),
                                  message   |-> Strip(g.msg)]),
     records |-> ps.records,
     current |-> Len(ps.heap) + 1]

\* as FinalizeCurrent, were the record inserted at the front of the list
FinalizeCurrentAtFront(ps) ==
    IF ps.current # 0
    THEN [ps EXCEPT !.records = << ps.current >> \o ps.records]
    ELSE ps

\* lines 94-95: if current is not None: records.append(current)
FinalizeCurrent(ps) ==
    IF ps.current # 0
    THEN [ps EXCEPT !.records = Append(ps.records, ps.current)]
    ELSE ps

\* as OnContinuation, were the guard "current is not None" dropped and the
\* text kept for the record to come
OnContinuationKeepsOrphan(ps, line) ==
    IF Strip(line) = << >> THEN ps
    ELSE IF ps.current # 0
    THEN [ps EXCEPT !.heap[ps.current].message = @ \o << LF >> \o Strip(line)]
    ELSE [heap    |-> Append(ps.heap, [timestamp |-> [year |-> 1, month |-> 1, day |-> 1,
                                                      hour |-> 0, minute |-> 0, second |-> 0],
                                       sender    |-> << >>,
                                       message   |-> Strip(line)]),
          records |-> ps.records,
          current |-> Len(ps.heap) + 1]

\* lines 106-107: a non-blank line is appended to the open record, if any
OnContinuation(ps, line) ==
    IF ps.current # 0 /\ Strip(line) # << >>
    THEN [ps EXCEPT !.heap[ps.current].message = @ \o << LF >> \o Strip(line)]
    ELSE ps

ParserState == [heap |-> heap, records |-> records, current |-> current]

SetParserState(ps) ==
    /\ heap' = ps.heap
    /\ records' = ps.records
    /\ current' = ps.current

\* the records as values: what the list records holds
Deref(h, refs) == List([i \in 1..Len(refs) |-> h[refs[i]]])

---------------------------------------------------------------------------
(* Classification: ADMIN_ACTION_RE, MEDIA_PLACEHOLDERS, tokenize, EMOJI_RE *)

TargetYear == 2025
TopN == 10
PreviewLen == 200

AdminPhrases ==
    { <<99, 114, 101, 97, 116, 101, 100, 32, 116, 104, 105, 115, 32, 103, 114, 111, 117, 112>>,
      <<97, 100, 100, 101, 100>>, <<114, 101, 109, 111, 118, 101, 100>>, <<99, 104, 97, 110, 103, 101, 100>>, <<112, 114, 111, 109, 111, 116, 101, 100>>, <<111, 109, 105, 116, 116, 101, 100>> }

Made == <<109, 97, 100, 101>>
Admin == <<97, 100, 109, 105, 110>>

\* ADMIN_ACTION_RE.search(message), re.IGNORECASE; in made.*admin the dot
\* matches anything but a line feed
IsAdminAction(m) ==
    \/ \E p \in AdminPhrases : ContainsCI(m, p)
    \/ \E i \in 1..Len(m) :
          /\ MatchAt(m, Made, i)
          /\ \E k \in (i + Len(Made))..Len(m) :
                /\ MatchAt(m, Admin, k)
                /\ \A t \in (i + Len(Made))..(k - 1) : m[t] # LF

MEDIA_PLACEHOLDERS ==
    { <<60, 77, 101, 100, 105, 97, 32, 111, 109, 105, 116, 116, 101, 100, 62>>,
      <<8206, 60, 77, 101, 100, 105, 97, 32, 111, 109, 105, 116, 116, 101, 100, 62>>,
      <<105, 109, 97, 103, 101, 32, 111, 109, 105, 116, 116, 101, 100>>,
      <<118, 105, 100, 101, 111, 32, 111, 109, 105, 116, 116, 101, 100>>,
      <<115, 116, 105, 99, 107, 101, 114, 32, 111, 109, 105, 116, 116, 101, 100>> }

is_media_message(m) == Strip(RemoveChar(m, LRM)) \in MEDIA_PLACEHOLDERS

STOPWORDS ==
    { <<116, 104, 101>>, <<97>>, <<97, 110>>, <<97, 110, 100>>, <<111, 114>>, <<98, 117, 116>>, <<116, 111>>, <<111, 102>>,
      <<105, 110>>, <<111, 110>>, <<102, 111, 114>>, <<119, 105, 116, 104>>, <<105, 115>>, <<105, 116>>, <<116, 104, 105, 115>>, <<116, 104, 97, 116>>,
      <<105>>, <<121, 111, 117>>, <<104, 101>>, <<115, 104, 101>>, <<119, 101>>, <<116, 104, 101, 121>>, <<109, 101>>, <<109, 121>>,
      <<121, 111, 117, 114>>, <<111, 117, 114>>, <<117, 115>>, <<97, 116>>, <<97, 115>>, <<98, 101>>, <<97, 114, 101>>, <<119, 97, 115>>,
      <<119, 101, 114, 101>>, <<115, 111>>, <<110, 111, 116>>, <<100, 111>>, <<100, 111, 101, 115>>, <<100, 105, 100>>, <<102, 114, 111, 109>>, <<98, 121>>,
      <<105, 102>>, <<116, 104, 101, 110>>, <<105, 109>>, <<105, 39, 109>>, <<117>>, <<117, 114>>, <<108, 111, 108>>,
      <<98, 114, 111>>, <<98, 114, 101, 118>> }

\* the class [a-z0-9']
IsTokenChar(c) == c \in 97..122 \/ c \in 48..57 \/ c = 39

\* re.findall(r"[a-z0-9']+", text): the maximal runs, in order
TokenRuns(s) ==
    LET n      == Len(s)
        starts == SortedSeq({i \in 1..n :
                      IsTokenChar(s[i]) /\ (i = 1 \/ ~IsTokenChar(s[i - 1]))})
        end(b) == CHOOSE e \in b..n :
                      /\ \A t \in b..e : IsTokenChar(s[t])
                      /\ (e = n \/ ~IsTokenChar(s[e + 1]))
    IN  List([j \in 1..Len(starts) |-> SubSeq(s, starts[j], end(starts[j]))])

tokenize(text) ==
    SelectSeq(TokenRuns(Lower(text)),
              LAMBDA t : t \notin STOPWORDS /\ Len(t) > 1)

\* EMOJI_RE: U+1F300-1F5FF, U+1F600-1F64F, U+1F680-1F6FF, U+1F1E0-1F1FF,
\* U+2600-26FF, U+2700-27BF
IsEmoji(c) ==
    \/ c \in 127744..128511
    \/ c \in 128512..128591
    \/ c \in 128640..128767
    \/ c \in 127462..127487
    \/ c \in 9728..9983
    \/ c \in 9984..10175

\* EMOJI_RE.findall(message): one string per matching character
EmojiFindall(m) ==
    LET hits == SelectSeq(m, IsEmoji)
    IN  List([i \in 1..Len(hits) |-> << hits[i] >>])

---------------------------------------------------------------------------
(* collections.Counter: a table of (key, count) in insertion order *)

\* Counter(ks): a key enters the table at its first occurrence, and its
\* count is the number of its occurrences
Counter(ks) ==
    LET firsts == SortedSeq({i \in 1..Len(ks) : \A j \in 1..(i - 1) : ks[j] # ks[i]})
    IN  List([j \in 1..Len(firsts) |->
                 [key   |-> ks[firsts[j]],
                  count |-> Cardinality({i \in 1..Len(ks) : ks[i] = ks[firsts[j]]})]])

\* as RankDesc, were the sort not stable: equal counts in reverse order
RankDescUnstable(c, i) ==
    1 + Cardinality({j \in 1..Len(c) : c[j].count > c[i].count})
      + Cardinality({j \in (i + 1)..Len(c) : c[j].count = c[i].count})

\* where sorted(c, key=count, reverse=True) puts c[i]: after the entries of
\* greater count and, the sort being stable, after the earlier entries of
\* equal count
RankDesc(c, i) ==
    1 + Cardinality({j \in 1..Len(c) : c[j].count > c[i].count})
      + Cardinality({j \in 1..(i - 1) : c[j].count = c[i].count})

SortDesc(c) ==
    List([p \in 1..Len(c) |-> c[CHOOSE i \in 1..Len(c) : RankDesc(c, i) = p]])

\* Counter.most_common(n): heapq.nlargest(n, items, key=count), which is
\* sorted(items, key=count, reverse=True)[:n]
MostCommon(c, n) ==
    LET s == SortDesc(c)
    IN  SubSeq(s, 1, IF n < Len(s) THEN n ELSE Len(s))

\* min(items, key=count): the first entry of least count
MinCount(c) ==
    c[CHOOSE i \in 1..Len(c) :
          /\ \A j \in 1..Len(c) : c[i].count <= c[j].count
          /\ \A j \in 1..(i - 1) : c[j].count > c[i].count]

\* as MaxByLen, were the last record of greatest length taken
MaxByLenLast(rs) ==
    rs[CHOOSE i \in 1..Len(rs) :
           /\ \A j \in 1..Len(rs) : Len(rs[i].message) >= Len(rs[j].message)
           /\ \A j \in (i + 1)..Len(rs) : Len(rs[j].message) < Len(rs[i].message)]

\* max(rs, key=lambda r: len(r["message"])): the first record of greatest length
MaxByLen(rs) ==
    rs[CHOOSE i \in 1..Len(rs) :
           /\ \A j \in 1..Len(rs) : Len(rs[i].message) >= Len(rs[j].message)
           /\ \A j \in 1..(i - 1) : Len(rs[j].message) < Len(rs[i].message)]

---------------------------------------------------------------------------
(* datetime: weekday(), isoformat(), strftime("%B %Y") *)

DaysBeforeYear(y) ==
    LET p == y - 1 IN p * 365 + (p \div 4) - (p \div 100) + (p \div 400)

RECURSIVE DaysBeforeMonth(_, _)
DaysBeforeMonth(y, m) ==
    IF m = 1 THEN 0 ELSE DaysBeforeMonth(y, m - 1) + DaysInMonth(y, m - 1)

ToOrdinal(ts) == DaysBeforeYear(ts.year) + DaysBeforeMonth(ts.year, ts.month) + ts.day

\* Monday is 0
Weekday(ts) == (ToOrdinal(ts) + 6) % 7

Pad2(n) == << 48 + (n \div 10), 48 + (n % 10) >>
Pad4(n) == Pad2(n \div 100) \o Pad2(n % 100)

IsoFormat(ts) ==
    Pad4(ts.year) \o << 45 >> \o Pad2(ts.month) \o << 45 >> \o Pad2(ts.day)
        \o << 84 >> \o Pad2(ts.hour) \o << COLON >> \o Pad2(ts.minute)
        \o << COLON >> \o Pad2(ts.second)

DOW_NAMES ==
    << <<77, 111, 110>>, <<84, 117, 101>>, <<87, 101, 100>>, <<84, 104, 117>>, <<70, 114, 105>>, <<83, 97, 116>>, <<83, 117, 110>> >>

MonthNames ==
    << <<74, 97, 110, 117, 97, 114, 121>>, <<70, 101, 98, 114, 117, 97, 114, 121>>, <<77, 97, 114, 99, 104>>, <<65, 112, 114, 105, 108>>, <<77, 97, 121>>, <<74, 117, 110, 101>>,
       <<74, 117, 108, 121>>, <<65, 117, 103, 117, 115, 116>>, <<83, 101, 112, 116, 101, 109, 98, 101, 114>>, <<79, 99, 116, 111, 98, 101, 114>>, <<78, 111, 118, 101, 109, 98, 101, 114>>,
       <<68, 101, 99, 101, 109, 98, 101, 114>> >>

MonthLabel(y, m) == MonthNames[m] \o << SPACE >> \o Pad4(y)

is_night(ts) == ts.hour >= 22 \/ ts.hour <= 4

\* round(count / total * 100, 2), in hundredths of a percent (round half even)
RoundPercent(count, total) ==
    LET q == (count * 10000) \div total
        r == (count * 10000) % total
    IN  IF 2 * r > total \/ (2 * r = total /\ q % 2 = 1) THEN q + 1 ELSE q

---------------------------------------------------------------------------
(* compute_stats *)

\* as YearFilter, were the year not tested
YearFilterOff(rs) == rs

YearFilter(rs) == SelectSeq(rs, LAMBDA r : r.timestamp.year = TargetYear)

SystemEvents(rs) == SelectSeq(rs, LAMBDA r : IsAdminAction(r.message))

UserMsgs(rs) == SelectSeq(rs, LAMBDA r : ~IsAdminAction(r.message))

UserNonMedia(us) == SelectSeq(us, LAMBDA r : ~is_media_message(r.message))

RECURSIVE Concat(_)
Concat(ss) == IF ss = << >> THEN << >> ELSE Head(ss) \o Concat(Tail(ss))

\* the senders, hours, weekdays and months of the records, in order
Senders(rs) == List([i \in 1..Len(rs) |-> rs[i].sender])
Hours(rs) == List([i \in 1..Len(rs) |-> rs[i].timestamp.hour])
Weekdays(rs) == List([i \in 1..Len(rs) |-> Weekday(rs[i].timestamp)])
Months(rs) ==
    List([i \in 1..Len(rs) |-> << rs[i].timestamp.year, rs[i].timestamp.month >>])

\* the tokens, and the emojis, of all the messages, in order
AllTokens(rs) == Concat(List([i \in 1..Len(rs) |-> tokenize(rs[i].message)]))
AllEmojis(rs) == Concat(List([i \in 1..Len(rs) |-> EmojiFindall(rs[i].message)]))

TopTalkers(us) ==
    LET top == MostCommon(Counter(Senders(us)), TopN)
    IN  List([i \in 1..Len(top) |-> [sender |-> top[i].key, count |-> top[i].count]])

QuietestSender(us) ==
    LET q == MinCount(Counter(Senders(us)))
    IN  [sender |-> q.key, count |-> q.count]

Preview(m) == SubSeq(ReplaceChar(m, LF, SPACE), 1,
                     IF Len(m) < PreviewLen THEN Len(m) ELSE PreviewLen)

LongestMessage(nm) ==
    IF nm = << >> THEN None
    ELSE LET lr == MaxByLen(nm)
         IN  Some([sender       |-> lr.sender,
                   timestamp    |-> IsoFormat(lr.timestamp),
                   length_chars |-> Len(lr.message),
                   preview      |-> Preview(lr.message)])

MostUsedWord(nm) ==
    LET wc == Counter(AllTokens(nm))
    IN  IF wc = << >> THEN None
        ELSE LET t == MostCommon(wc, 1)[1]
             IN  Some([word |-> t.key, count |-> t.count])

MostUsedEmoji(nm) ==
    LET ec == Counter(AllEmojis(nm))
    IN  IF ec = << >> THEN None
        ELSE LET t == MostCommon(ec, 1)[1]
             IN  Some([emoji |-> t.key, count |-> t.count])

\* lines 132-144: the keyword arguments of the empty path; most_used_emoji
\* is not among them
EmptyKwargs(total, sys) ==
    [total_records       |-> total,
     total_user_messages |-> 0,
     total_system_events |-> sys,
     top_talkers         |-> << >>,
     quietest_sender     |-> None,
     busiest_hour        |-> [hour |-> None, count |-> 0],
     busiest_day_of_week |-> [day |-> None, count |-> 0],
     peak_month          |-> [year |-> None, month |-> None, label |-> None, count |-> 0],
     night_owl           |-> [count |-> 0, percent |-> 0],
     longest_message     |-> None,
     most_used_word      |-> None]

\* lines 146-219: the keyword arguments of the normal path
NormalKwargs(total, us, sys) ==
    LET hour  == MostCommon(Counter(Hours(us)), 1)[1]
        dow   == MostCommon(Counter(Weekdays(us)), 1)[1]
        month == MostCommon(Counter(Months(us)), 1)[1]
        night == Len(SelectSeq(us, LAMBDA r : is_night(r.timestamp)))
        nm    == UserNonMedia(us)
    IN  [total_records       |-> total,
         total_user_messages |-> Len(us),
         total_system_events |-> sys,
         top_talkers         |-> TopTalkers(us),
         quietest_sender     |-> Some(QuietestSender(us)),
         busiest_hour        |-> [hour |-> Some(hour.key), count |-> hour.count],
         busiest_day_of_week |-> [day |-> Some(DOW_NAMES[dow.key + 1]), count |-> dow.count],
         peak_month          |-> [year  |-> Some(month.key[1]),
                                  month |-> Some(month.key[2]),
                                  label |-> Some(MonthLabel(month.key[1], month.key[2])),
                                  count |-> month.count],
         night_owl           |-> [count |-> night, percent |-> RoundPercent(night, Len(us))],
         longest_message     |-> LongestMessage(nm),
         most_used_word      |-> MostUsedWord(nm),
         most_used_emoji     |-> MostUsedEmoji(nm)]

RequiredFields ==
    { "total_records", "total_user_messages", "total_system_events", "top_talkers",
      "busiest_hour", "busiest_day_of_week", "peak_month", "night_owl" }

OptionalFields == { "quietest_sender", "longest_message", "most_used_word", "most_used_emoji" }

\* WrappedResponse(**kwargs): the model, or None where pydantic raises
\* ValidationError. The Optional fields are declared without a default: pydantic 1
\* gives such a field the default None (implicitOptional), pydantic 2 requires it.
WrappedResponse(kwargs, implicitOptional) ==
    LET missing == (RequiredFields \cup OptionalFields) \ DOMAIN kwargs
    IN  IF missing = {} THEN Some(kwargs)
        ELSE IF implicitOptional /\ missing \subseteq OptionalFields
             THEN Some([f \in RequiredFields \cup OptionalFields |->
                           IF f \in missing THEN None ELSE kwargs[f]])
             ELSE None

\* compute_stats(records): the WrappedResponse, or None where it raises
compute_stats(rs, implicitOptional) ==
    LET inYear == YearFilter(rs)
        us     == UserMsgs(inYear)
        sys    == Len(SystemEvents(inYear))
    IN  IF Len(us) = 0
        THEN WrappedResponse(EmptyKwargs(Len(inYear), sys), implicitOptional)
        ELSE WrappedResponse(NormalKwargs(Len(inYear), us, sys), implicitOptional)

---------------------------------------------------------------------------
(* The inputs *)

MaxLines == 3
LongLen == 101
MaxSenders == 11
MaxPre == 2

\* "[2025/01/05, 22:15:03] Alice: hello world"
L_Hello == <<91, 50, 48, 50, 53, 47, 48, 49, 47, 48, 53, 44, 32, 50, 50, 58, 49, 53, 58, 48, 51, 93, 32, 65, 108, 105, 99, 101, 58, 32, 104, 101, 108, 108, 111, 32, 119, 111, 114, 108, 100>>
\* "[2025/01/05, 22:16:00] Bob: <Media omitted>"
L_Media == <<91, 50, 48, 50, 53, 47, 48, 49, 47, 48, 53, 44, 32, 50, 50, 58, 49, 54, 58, 48, 48, 93, 32, 66, 111, 98, 58, 32, 60, 77, 101, 100, 105, 97, 32, 111, 109, 105, 116, 116, 101, 100, 62>>
\* "[2025/01/05, 10:00:00] Bob: ": a header line with an empty message
L_EmptyMsg == <<91, 50, 48, 50, 53, 47, 48, 49, 47, 48, 53, 44, 32, 49, 48, 58, 48, 48, 58, 48, 48, 93, 32, 66, 111, 98, 58, 32>>
\* "[2024/12/31, 23:59:59] Alice: old news": outside the target year
L_Old == <<91, 50, 48, 50, 52, 47, 49, 50, 47, 51, 49, 44, 32, 50, 51, 58, 53, 57, 58, 53, 57, 93, 32, 65, 108, 105, 99, 101, 58, 32, 111, 108, 100, 32, 110, 101, 119, 115>>
\* "[2025/13/45, 10:00:00] Bob: hi": the header shape, and no calendar date
L_BadDate == <<91, 50, 48, 50, 53, 47, 49, 51, 47, 52, 53, 44, 32, 49, 48, 58, 48, 48, 58, 48, 48, 93, 32, 66, 111, 98, 58, 32, 104, 105>>
\* "[2025/03/02, 09:30:00] Carol: Dan was ADDED"
L_Admin == <<91, 50, 48, 50, 53, 47, 48, 51, 47, 48, 50, 44, 32, 48, 57, 58, 51, 48, 58, 48, 48, 93, 32, 67, 97, 114, 111, 108, 58, 32, 68, 97, 110, 32, 119, 97, 115, 32, 65, 68, 68, 69, 68>>
\* "[2025/03/02, 04:31:00]  Carol : good night" and U+263E, as long as "hello world"
L_Night == <<91, 50, 48, 50, 53, 47, 48, 51, 47, 48, 50, 44, 32, 48, 52, 58, 51, 49, 58, 48, 48, 93, 32, 32, 67, 97, 114, 111, 108, 32, 58, 32, 103, 111, 111, 100, 32, 110, 105, 103, 104, 116, 9790>>
\* "  see you at 10:30  ": no header
L_Cont == <<32, 32, 115, 101, 101, 32, 121, 111, 117, 32, 97, 116, 32, 49, 48, 58, 51, 48, 32, 32>>
\* spaces and a tab
L_Blank == <<32, 32, 9>>
\* LongLen times "x"
L_Long == List([i \in 1..LongLen |-> 120])

LineLib ==
    { L_Hello, L_Media, L_EmptyMsg, L_Old, L_BadDate, L_Admin, L_Night,
      L_Cont, L_Blank, L_Long }

RECURSIVE SeqsUpTo(_, _)
SeqsUpTo(S, n) ==
    IF n = 0 THEN { << >> }
    ELSE LET shorter == SeqsUpTo(S, n - 1)
         IN  shorter \cup { Append(s, x) : s \in shorter, x \in S }

\* "\n".join(ls)
RECURSIVE JoinLines(_)
JoinLines(ls) ==
    IF ls = << >> THEN << >>
    ELSE IF Len(ls) = 1 THEN ls[1]
    ELSE ls[1] \o << LF >> \o JoinLines(Tail(ls))

Inputs == { JoinLines(ls) : ls \in SeqsUpTo(LineLib, MaxLines) }

\* "chat.TXT" and "chat.zip"
FileNames == { <<99, 104, 97, 116, 46, 84, 88, 84>>, <<99, 104, 97, 116, 46, 122, 105, 112>> }
DotTxt == <<46, 116, 120, 116>>
MaxUploadBytes == 5 * 1024 * 1024

EndsWith(s, suffix) ==
    Len(s) >= Len(suffix) /\ SubSeq(s, Len(s) - Len(suffix) + 1, Len(s)) = suffix

---------------------------------------------------------------------------
(* The request: wrapped *)

Init ==
    /\ pc = "start"
    /\ content \in Inputs
    /\ lines = << >>
    /\ idx = 0
    /\ heap = << >>
    /\ records = << >>
    /\ current = 0
    /\ result = None

\* lines 223-240: the extension, the size and the decoding, then
\* parse_chat_text up to its loop. nbytes is len(raw); decodes is whether raw
\* decodes (as UTF-8 or UTF-16) to content.
WrappedReceive ==
    /\ pc = "start"
    /\ \E filename \in FileNames, nbytes \in {Len(content), MaxUploadBytes + 1},
          decodes \in BOOLEAN :
          LET next == IF ~EndsWith(Lower(filename), DotTxt) THEN "bad_extension"
                      ELSE IF nbytes > MaxUploadBytes THEN "too_large"
                      ELSE IF ~decodes THEN "undecodable"
                      ELSE "parsing"
          IN  /\ pc' = next
              /\ lines' = IF next = "parsing" THEN SplitLines(content) ELSE lines
    /\ UNCHANGED <<content, idx, heap, records, current, result>>

\* lines 89-104: a line that matches HEADER_RE. strptime raises ValueError
\* after the open record was appended.
ParseHeaderLine ==
    /\ pc = "parsing"
    /\ idx < Len(lines)
    /\ LET line == RStripLF(lines[idx + 1])
           m    == HeaderMatch(line)
       IN  /\ m # None
           /\ LET ts  == Strptime(m[1].date, m[1].time)
                  fin == FinalizeCurrent(ParserState)
              IN  IF ts = None
                  THEN /\ SetParserState(fin)
                       /\ pc' = "raised_ValueError"
                       /\ idx' = idx
                  ELSE /\ SetParserState(OpenRecord(fin, ts[1], m[1]))
                       /\ pc' = pc
                       /\ idx' = idx + 1
    /\ UNCHANGED <<content, lines, result>>

\* lines 89-92, 105-107: a line that does not match
ParseContinuationLine ==
    /\ pc = "parsing"
    /\ idx < Len(lines)
    /\ LET line == RStripLF(lines[idx + 1])
       IN  /\ HeaderMatch(line) = None
           /\ SetParserState(OnContinuation(ParserState, line))
    /\ idx' = idx + 1
    /\ UNCHANGED <<pc, content, lines, result>>

\* lines 109-112: after the loop
ParseReturn ==
    /\ pc = "parsing"
    /\ idx = Len(lines)
    /\ SetParserState(FinalizeCurrent(ParserState))
    /\ pc' = "parsed"
    /\ UNCHANGED <<content, lines, idx, result>>

\* lines 242-246: no record, HTTP 400
WrappedReject ==
    /\ pc = "parsed"
    /\ records = << >>
    /\ pc' = "rejected"
    /\ UNCHANGED <<content, lines, idx, heap, records, current, result>>

\* line 248: compute_stats is called
WrappedCallStats ==
    /\ pc = "parsed"
    /\ records # << >>
    /\ pc' = "computing"
    /\ UNCHANGED <<content, lines, idx, heap, records, current, result>>

\* lines 115-219, 248: compute_stats returns or raises
ComputeStats ==
    /\ pc = "computing"
    /\ \E implicitOptional \in BOOLEAN :
          LET r == compute_stats(Deref(heap, records), implicitOptional)
          IN  /\ result' = r
              /\ pc' = IF r = None THEN "raised_ValidationError" ELSE "done"
    /\ UNCHANGED <<content, lines, idx, heap, records, current>>

Next ==
    \/ WrappedReceive
    \/ ParseHeaderLine
    \/ ParseContinuationLine
    \/ ParseReturn
    \/ WrappedReject
    \/ WrappedCallStats
    \/ ComputeStats

Spec == Init /\ [][Next]_vars

---------------------------------------------------------------------------
(* compute_stats alone, on record lists of up to MaxSenders senders *)

SenderName(k) == << 64 + k >>

\* a record of sender k; "hi" at hour k of 2025/01/05, or of 2024/01/05
StatsRecord(k, y) ==
    [timestamp |-> [year |-> y, month |-> 1, day |-> 5,
                    hour |-> k % 24, minute |-> 15, second |-> 3],
     sender    |-> SenderName(k),
     message   |-> <<104, 105>>]

\* the senders of pre, then each of the senders 1..n once
StatsInputs ==
    UNION { { List([i \in 1..(Len(pre) + n) |->
                  StatsRecord(IF i <= Len(pre) THEN pre[i] ELSE i - Len(pre), y)]) :
              pre \in SeqsUpTo(1..n, MaxPre), y \in {TargetYear - 1, TargetYear} } :
            n \in 0..MaxSenders }

StatsInit ==
    /\ pc = "computing"
    /\ content = << >>
    /\ lines = << >>
    /\ idx = 0
    /\ heap \in StatsInputs
    /\ records = List([i \in 1..Len(heap) |-> i])
    /\ current = Len(heap)
    /\ result = None

StatsNext == ComputeStats

SpecStats == StatsInit /\ [][StatsNext]_vars

---------------------------------------------------------------------------
(* What the claims speak of *)

\* the records parse_chat_text holds in its list, as values
Recs == Deref(heap, records)

\* the positions of the header lines among the first k lines, in order
HeaderIdxs(k) == SortedSeq({i \in 1..k : HeaderMatch(lines[i]) # None})

\* the number of lines the parser has dealt with
Consumed == IF pc \in {"parsing", "raised_ValueError"} THEN idx ELSE Len(lines)

AfterParse == pc \in {"parsed", "rejected", "computing", "done", "raised_ValidationError"}

\* the non-blank lines after header line h and before position stop, stripped
ContinuationsOf(h, stop) ==
    LET between == List([i \in 1..(stop - h - 1) |-> Strip(lines[h + i])])
    IN  SelectSeq(between, LAMBDA l : l # << >>)

\* what the continuation lines cs add to a message: a line feed before each
Appended(cs) == Concat(List([i \in 1..Len(cs) |-> << LF >> \o cs[i]]))

\* where the record of the j-th header line of hs ends
StopOf(hs, j) == IF j < Len(hs) THEN hs[j + 1] ELSE Len(lines) + 1

\* the user messages of the target year, as the specification classifies them
InYearRecs == SelectSeq(Recs, LAMBDA r : r.timestamp.year = TargetYear)

Example == JoinLines(<< L_Hello, L_Media >>)

---------------------------------------------------------------------------
(* C1: whenever compute_stats returns, total_records is the number of       *)
(* records of the target year and equals total_user_messages +              *)
(* total_system_events.                                                     *)
C1_TotalsAddUp ==
    pc = "done" =>
        /\ result[1].total_records =
               Cardinality({i \in 1..Len(records) :
                               heap[records[i]].timestamp.year = TargetYear})
        /\ result[1].total_records =
               result[1].total_user_messages + result[1].total_system_events

\* a result with user messages, system events and records of another year
C1_Witness ==
    /\ pc = "done"
    /\ result[1].total_user_messages > 0
    /\ result[1].total_system_events > 0
    /\ Len(records) > result[1].total_records

(* C2: a target-year record whose message is a media placeholder is a user  *)
(* message: total_user_messages counts it, and the two-line example yields  *)
(* 2 user messages, 0 system events and night_owl.count = 2.                *)
C2_MediaCountsAsUser ==
    pc = "done" =>
        /\ result[1].total_user_messages =
               Len(SelectSeq(InYearRecs,
                       LAMBDA r : is_media_message(r.message) \/ ~IsAdminAction(r.message)))
        /\ content = Example =>
               /\ result[1].total_user_messages = 2
               /\ result[1].total_system_events = 0
               /\ result[1].night_owl.count = 2

(* C3: when no user message of the target year is left, compute_stats does  *)
(* not fail and returns the empty sentinels.                                *)
C3_EmptySubsetSentinels ==
    (pc \in {"done", "raised_ValidationError"} /\ UserMsgs(InYearRecs) = << >>) =>
        /\ pc = "done"
        /\ result[1].top_talkers = << >>
        /\ result[1].quietest_sender = None
        /\ result[1].longest_message = None
        /\ result[1].most_used_word = None
        /\ result[1].most_used_emoji = None
        /\ result[1].busiest_hour = [hour |-> None, count |-> 0]
        /\ result[1].busiest_day_of_week = [day |-> None, count |-> 0]
        /\ result[1].peak_month =
               [year |-> None, month |-> None, label |-> None, count |-> 0]
        /\ result[1].night_owl = [count |-> 0, percent |-> 0]

(* C4: a decoded text ends in a Result or in the unrecognized-format        *)
(* rejection and in nothing else; it is rejected exactly when none of its   *)
(* lines has the header shape, and then compute_stats is not called.        *)
C4_ResultOrRejection ==
    LET noHeader == \A i \in 1..Len(lines) : HeaderMatch(lines[i]) = None
    IN  /\ pc \notin {"raised_ValueError", "raised_ValidationError"}
        /\ pc = "rejected" => noHeader
        /\ pc \in {"computing", "done"} => ~noHeader

(* C5: the records are the header lines in input order, whatever their      *)
(* timestamps: the j-th record has the timestamp and the sender of the j-th *)
(* header line; while the loop runs, the record of the last header line     *)
(* seen is still open and not in the list; after the loop every header line *)
(* has its record.                                                          *)
C5_RecordsInInputOrder ==
    LET hs   == HeaderIdxs(Consumed)
        open == pc = "parsing" /\ hs # << >>
        groups(j) == HeaderMatch(lines[hs[j]])[1]
        agrees(r, j) ==
            /\ Some(r.timestamp) = Strptime(groups(j).date, groups(j).time)
            /\ r.sender = Strip(groups(j).sender)
    IN  /\ Len(records) = Len(hs) - (IF open THEN 1 ELSE 0)
        /\ \A j \in 1..Len(records) : agrees(heap[records[j]], j)
        /\ open => /\ current # 0
                   /\ \A j \in 1..Len(records) : records[j] # current
                   /\ agrees(heap[current], Len(hs))
        /\ AfterParse => Len(records) = Len(HeaderIdxs(Len(lines)))

\* two records whose timestamps decrease
C5_Witness ==
    /\ pc = "parsed"
    /\ Len(records) >= 2
    /\ heap[records[1]].timestamp.year = heap[records[2]].timestamp.year
    /\ heap[records[1]].timestamp.month > heap[records[2]].timestamp.month

(* C6: before the first header line the parser stays as it began (no        *)
(* record, none open), whatever the lines; and the message of every record  *)
(* is made of its own header line and the lines after it, so no text of an  *)
(* earlier line is in it.                                                   *)
C6_OrphanLinesDropped ==
    /\ (pc = "parsing" /\ HeaderIdxs(idx) = << >>) =>
           (heap = << >> /\ records = << >> /\ current = 0)
    /\ AfterParse =>
           LET hs == HeaderIdxs(Len(lines))
           IN  \A j \in 1..Len(records) :
                   heap[records[j]].message =
                       Strip(HeaderMatch(lines[hs[j]])[1].msg)
                           \o Appended(ContinuationsOf(hs[j], StopOf(hs, j)))

\* a non-blank line before the first header line, and a record after it
C6_Witness ==
    /\ pc = "parsed"
    /\ records # << >>
    /\ HeaderMatch(lines[1]) = None
    /\ Strip(lines[1]) # << >>

(* C7: the message of every record in the list is trimmed: it is the header *)
(* text and the non-blank continuation lines, each stripped, joined by      *)
(* single line feeds, without leading or trailing whitespace.               *)
C7_MessageTrimmed ==
    LET hs == HeaderIdxs(Consumed)
    IN  \A j \in 1..Len(records) :
            heap[records[j]].message =
                Strip(JoinLines(<< Strip(HeaderMatch(lines[hs[j]])[1].msg) >>
                                    \o ContinuationsOf(hs[j],
                                           IF j < Len(hs) THEN hs[j + 1] ELSE Consumed + 1)))

(* C8: no step changes a record that is in the list: the list keeps its     *)
(* prefix, and the timestamp, sender and message of its records stay.       *)
C8_FinalizedUnchanged ==
    [][ \A j \in 1..Len(records) :
            /\ j <= Len(records')
            /\ records'[j] = records[j]
            /\ heap'[records[j]] = heap[records[j]] ]_vars

\* compute_stats has run over two records, the second with a continuation line
C8_Witness ==
    /\ pc = "done"
    /\ Len(records) >= 2
    /\ \E k \in 1..Len(heap[records[2]].message) : heap[records[2]].message[k] = LF

(* C9: top_talkers holds the TopN first senders in the order of decreasing  *)
(* count, senders of equal count in the order of their first message, each  *)
(* with its number of messages; quietest_sender is the first-met sender of  *)
(* least count.                                                             *)
C9_TopTalkers ==
    (pc = "done" /\ result[1].total_user_messages > 0) =>
        LET us       == UserMsgs(InYearRecs)
            senders  == {us[i].sender : i \in 1..Len(us)}
            cnt(s)   == Cardinality({i \in 1..Len(us) : us[i].sender = s})
            first(s) == CHOOSE i \in 1..Len(us) :
                            us[i].sender = s /\ \A k \in 1..(i - 1) : us[k].sender # s
            before(s, t) == cnt(s) > cnt(t) \/ (cnt(s) = cnt(t) /\ first(s) < first(t))
            tt       == result[1].top_talkers
            q        == result[1].quietest_sender[1]
        IN  /\ Len(tt) = (IF Cardinality(senders) < TopN THEN Cardinality(senders) ELSE TopN)
            /\ \A i \in 1..Len(tt) :
                   tt[i].sender \in senders /\ tt[i].count = cnt(tt[i].sender)
            /\ \A i \in 1..Len(tt), j \in 1..Len(tt) :
                   i < j => before(tt[i].sender, tt[j].sender)
            /\ \A s \in senders :
                   (\A i \in 1..Len(tt) : tt[i].sender # s) =>
                       \A i \in 1..Len(tt) : before(tt[i].sender, s)
            /\ q.sender \in senders /\ q.count = cnt(q.sender)
            /\ \A s \in senders :
                   s # q.sender =>
                       cnt(s) > q.count \/ (cnt(s) = q.count /\ first(q.sender) < first(s))

\* more than TopN senders, and two of equal count among the listed ones
C9_Witness ==
    /\ pc = "done"
    /\ result[1].total_user_messages > 0
    /\ Cardinality({heap[i].sender : i \in 1..Len(heap)}) > TopN
    /\ Len(result[1].top_talkers) = TopN
    /\ result[1].top_talkers[1].count > result[1].top_talkers[2].count
    /\ result[1].top_talkers[2].count = result[1].top_talkers[3].count

(* C10: longest_message is the first of the longest user messages that are  *)
(* not media placeholders; length_chars is the length of its body and the   *)
(* preview is the body with each line feed replaced by a space, cut to      *)
(* PreviewLen characters.                                                   *)
C10_LongestMessage ==
    pc = "done" =>
        LET nm == SelectSeq(UserMsgs(InYearRecs), LAMBDA r : ~is_media_message(r.message))
            lm == result[1].longest_message
        IN  /\ (lm = None) <=> (nm = << >>)
            /\ lm # None =>
                   \E i \in 1..Len(nm) :
                       /\ \A j \in 1..Len(nm) : Len(nm[j].message) <= Len(nm[i].message)
                       /\ \A j \in 1..(i - 1) : Len(nm[j].message) < Len(nm[i].message)
                       /\ lm[1].sender = nm[i].sender
                       /\ lm[1].timestamp = IsoFormat(nm[i].timestamp)
                       /\ lm[1].length_chars = Len(nm[i].message)
                       /\ Len(lm[1].preview) <= PreviewLen
                       /\ Len(lm[1].preview) =
                              (IF Len(nm[i].message) < PreviewLen
                               THEN Len(nm[i].message) ELSE PreviewLen)
                       /\ \A k \in 1..Len(lm[1].preview) :
                              /\ lm[1].preview[k] # LF
                              /\ lm[1].preview[k] =
                                     (IF nm[i].message[k] = LF THEN SPACE
                                      ELSE nm[i].message[k])

\* a longest message of more than PreviewLen characters with continuation lines
C10_Witness ==
    /\ pc = "done"
    /\ result[1].longest_message # None
    /\ result[1].longest_message[1].length_chars > PreviewLen
    /\ Len(result[1].longest_message[1].preview) = PreviewLen
    /\ \E j \in 1..Len(records) :
           /\ Len(heap[records[j]].message) = result[1].longest_message[1].length_chars
           /\ \E k \in 1..PreviewLen : heap[records[j]].message[k] = LF

=============================================================================
